---- MODULE Spec2Model ----
(***************************************************************************)
(* State-machine model of the DETReg driver code:                          *)
(*   src/engine.py  train_one_epoch, evaluate, plot_result, viz            *)
(*   src/bash.py    the launcher script                                    *)
(* Each function is modelled as a sequential process with a program        *)
(* counter; the external collaborators (model, criterion, data loader,     *)
(* prefetcher, reduce_dict, evaluator) are modelled by the values they     *)
(* hand back, chosen nondeterministically from small sets.                 *)
(***************************************************************************)
EXTENDS Integers, Sequences, FiniteSets, TLC

(***************************************************************************)
(* Bounds of the model.                                                    *)
(***************************************************************************)
MaxBatches == 2
MaxArgs == 3
MaxImages == 3
MaxBatchSize == 2
MaxLabels == 3
MaxQueries == 2
MaxBoxes == 2

(***************************************************************************)
(* Floating point losses.  A finite loss is a natural number; the three    *)
(* non-finite floats are sentinels no finite sum of the model reaches.     *)
(***************************************************************************)
PosInf == 1000
NegInf == 1001
NaN == 1002

\* math.isfinite(x), engine.py line 73, with the NaN case dropped
IsFiniteIgnoringNaN(x) == x \notin {PosInf, NegInf}

\* math.isfinite(x): neither an infinity nor NaN
IsFinite(x) == x \notin {PosInf, NegInf, NaN}

\* float multiplication a * b of a loss by a (finite, non-negative) weight
FMul(a, b) ==
    IF a = NaN \/ b = NaN THEN NaN
    ELSE IF a \in {PosInf, NegInf} THEN (IF b = 0 THEN NaN ELSE a)
    ELSE IF b \in {PosInf, NegInf} THEN (IF a = 0 THEN NaN ELSE b)
    ELSE a * b

\* float addition a + b
FAdd(a, b) ==
    IF a = NaN \/ b = NaN THEN NaN
    ELSE IF a = PosInf THEN (IF b = NegInf THEN NaN ELSE PosInf)
    ELSE IF a = NegInf THEN (IF b = PosInf THEN NaN ELSE NegInf)
    ELSE IF b \in {PosInf, NegInf} THEN b
    ELSE a + b

\* sum(f[k] for k in S), Python's sum starting from 0
RECURSIVE FSum(_, _)
FSum(f, S) ==
    IF S = {} THEN 0
    ELSE LET k == CHOOSE x \in S : TRUE
         IN  FAdd(f[k], FSum(f, S \ {k}))

(***************************************************************************)
(* The dictionaries of train_one_epoch.                                    *)
(***************************************************************************)
\* keys of the loss_dict the criterion returns
LossKeys == {"loss_ce", "loss_bbox", "class_error"}

\* keys criterion.weight_dict may hold (loss_giou is weighted but not returned)
WeightKeys == {"loss_ce", "loss_bbox", "loss_giou"}

\* values a loss may take
LossVals == {1, PosInf, NaN}

\* class_error is a percentage
ClassErrVals == {50}

\* values of a weight
WeightVals == {2, 5}

\* the loss dictionaries a criterion call may return
LossDicts == {d \in [LossKeys -> LossVals \cup ClassErrVals] :
                 /\ d["class_error"] \in ClassErrVals
                 /\ \A k \in LossKeys \ {"class_error"} : d[k] \in LossVals}

\* the weight dictionaries a criterion may carry: the criterion weights at
\* least one of the losses it returns, so that the weighted sums of lines 61
\* and 69 are tensors (.item() and .backward() exist on them)
WeightDicts == UNION {[D -> WeightVals] :
                        D \in {E \in SUBSET WeightKeys : E \cap LossKeys # {}}}

\* f'{k}_unscaled'
UnscaledName(k) ==
    CASE k = "loss_ce" -> "loss_ce_unscaled"
      [] k = "loss_bbox" -> "loss_bbox_unscaled"
      [] k = "class_error" -> "class_error_unscaled"
      [] OTHER -> "unscaled"

VARIABLES
    \* ---- train_one_epoch ----
    tpc,                \* position in train_one_epoch
    nBatches,           \* len(data_loader)
    weight_dict,        \* criterion.weight_dict
    max_norm,           \* the max_norm argument
    swav_model,         \* TRUE when swav_model is not None
    it,                 \* iterations completed
    nFetch,             \* calls of prefetcher.next()
    samples,            \* index of the batch held in samples/targets, 0 for None
    fwd,                \* the batches passed to model(samples), in order
    calls,              \* framework calls of the current iteration, in order
    loss_dict,          \* criterion(outputs, targets)
    losses,             \* the tensor that is back-propagated
    loss_dict_reduced,  \* utils.reduce_dict(loss_dict)
    loss_value,         \* losses_reduced_scaled.item()
    backprop,           \* values losses.backward() was called on, in order
    nZeroGrad,          \* calls of optimizer.zero_grad
    nStep,              \* calls of optimizer.step
    meters,             \* metric_logger.meters: name -> number of updates
    logged,             \* (meter name, loss key) pairs of the last update
    exit_status,        \* status of sys.exit, -1 while running
    result,             \* keys of the returned dictionary
    \* ---- bash.py ----
    bpc,                \* position in bash.py
    sys_argv,           \* sys.argv: the script name, then the arguments
    PY_ARGS,            \* sys.argv[1:]
    command,            \* the argument list built at lines 9-13
    runs,               \* the argument lists subprocess.run was called with
    \* ---- evaluate ----
    epc,                \* position in evaluate
    dir_arg,            \* the output_dir argument as the caller passed it
    output_dir,         \* the output_dir argument, then the local of line 105
    postKeys,           \* postprocessors.keys()
    nImages,            \* images of the data loader's dataset
    batch_size,         \* images per batch
    eBatch,             \* batches taken from the data loader
    targets,            \* image_id of every target of the current batch
    gt_cls,             \* targets[0]['labels']
    predClasses,        \* classes among the kept top-10 predictions
    ap_lines,           \* 'AP for class ...' lines printed for the current batch
    ap_txt,             \* lines appended to ./ap.txt
    modelCalls,         \* calls of the model that was passed in
    stubbed,            \* TRUE once model was rebound to the loaddet lambda
    detFiles,           \* .pt detection files loaded or saved
    figures,            \* (directory, image id) of every saved figure
    emeters,            \* names of the meters of evaluate's logger
    updates,            \* the maps coco_evaluator.update was called with
    panoUpdates,        \* calls of panoptic_evaluator.update
    bound,              \* local names bound in evaluate's frame
    eresult,            \* how evaluate ended
    \* ---- viz ----
    vpc,                \* position in viz
    vN,                 \* batches of viz's data loader
    num_queries,        \* queries the model outputs per image
    vBatch,             \* batches taken from the data loader
    vImageId,           \* targets[0]['image_id']
    top_k,              \* len(targets[0]['boxes'])
    vLabels,            \* targets[0]['labels'], one label per box
    loaded_labels,      \* targets[0]['labels'] as the data loader produced it
    queries,            \* per query of image 0: class-1 score, keep, top class
    indices,            \* the query indices selected at line 396
    drawnPred,          \* predicted boxes drawn: (query, class name)
    drawnGT,            \* ground-truth boxes drawn: (box, class name)
    vfigures,           \* (directory, file name) of every saved figure
    verror              \* the exception that ended viz, "none" without one

trainVars == <<tpc, nBatches, weight_dict, max_norm, swav_model, it, nFetch,
               samples, fwd, calls, loss_dict, losses, loss_dict_reduced,
               loss_value, backprop, nZeroGrad, nStep, meters, logged,
               exit_status, result>>

bashVars == <<bpc, sys_argv, PY_ARGS, command, runs>>

evalVars == <<epc, dir_arg, output_dir, postKeys, nImages, batch_size, eBatch, targets,
             gt_cls, predClasses, ap_lines, ap_txt, modelCalls, stubbed, detFiles,
             figures, emeters, updates, panoUpdates, bound, eresult>>

vizVars == <<vpc, vN, num_queries, vBatch, vImageId, top_k, vLabels,
            loaded_labels,
            queries, indices, drawnPred, drawnGT, vfigures, verror>>

notTrainVars == <<bashVars, evalVars, vizVars>>

notBashVars == <<trainVars, evalVars, vizVars>>

notEvalVars == <<trainVars, bashVars, vizVars>>

notVizVars == <<trainVars, bashVars, evalVars>>

vars == <<trainVars, bashVars, evalVars, vizVars>>

NoDict == [k \in {} |-> 0]

(***************************************************************************)
(* train_one_epoch                                                         *)
(***************************************************************************)
\* for k in loss_dict.keys() if k in weight_dict
WeightedKeys(ld, wd) == DOMAIN ld \cap DOMAIN wd

\* {k: v * weight_dict[k] for k, v in d.items() if k in weight_dict}
Scaled(d, wd) == [k \in WeightedKeys(d, wd) |-> FMul(d[k], wd[k])]

\* sum(loss_dict.values()): the weights and the membership test forgotten
WeightedSumUnweighted(d, wd) == FSum(d, DOMAIN d)

\* sum(loss_dict[k] * weight_dict[k] for k in loss_dict.keys() if k in weight_dict)
WeightedSum(d, wd) == FSum(Scaled(d, wd), WeightedKeys(d, wd))

\* range(len(data_loader)) stopping one iteration early
LoopContinuesOffByOne(i, n) == i + 1 < n

\* range(len(data_loader)): iteration i (0-based) runs while i < len(data_loader)
LoopContinues(i, n) == i < n

\* prefetcher.next(): the n-th call hands back batch n, None after the last
PrefetcherNext(n) == IF n <= nBatches THEN n ELSE 0

\* metric_logger.update(**kw): every named meter is created on demand and updated
MeterUpdate(m, names) ==
    [n \in DOMAIN m \cup names |->
        IF n \in names THEN (IF n \in DOMAIN m THEN m[n] + 1 ELSE 1) ELSE m[n]]

\* bash.py is not running
IdleBash ==
    /\ bpc = "idle"
    /\ sys_argv = <<>>
    /\ PY_ARGS = <<>>
    /\ command = <<>>
    /\ runs = <<>>

\* viz is not running
IdleViz ==
    /\ vpc = "idle"
    /\ vN = 0
    /\ num_queries = 1
    /\ vBatch = 0
    /\ vImageId = 0
    /\ top_k = 0
    /\ vLabels = <<>>
    /\ loaded_labels = <<>>
    /\ queries = <<>>
    /\ indices = <<>>
    /\ drawnPred = <<>>
    /\ drawnGT = <<>>
    /\ vfigures = <<>>
    /\ verror = "none"

\* evaluate is not running
IdleEval ==
    /\ epc = "idle"
    /\ dir_arg = "vis"
    /\ output_dir = "vis"
    /\ postKeys = {}
    /\ nImages = 0
    /\ batch_size = 1
    /\ eBatch = 0
    /\ targets = <<>>
    /\ gt_cls = <<>>
    /\ predClasses = {}
    /\ ap_lines = <<>>
    /\ ap_txt = <<>>
    /\ modelCalls = 0
    /\ stubbed = FALSE
    /\ detFiles = {}
    /\ figures = <<>>
    /\ emeters = {}
    /\ updates = <<>>
    /\ panoUpdates = 0
    /\ bound = {}
    /\ eresult = "none"

\* train_one_epoch is not running
IdleTrain ==
    /\ tpc = "idle"
    /\ nBatches = 0
    /\ weight_dict = NoDict
    /\ max_norm = 0
    /\ swav_model = FALSE
    /\ it = 0
    /\ nFetch = 0
    /\ samples = 0
    /\ fwd = <<>>
    /\ calls = <<>>
    /\ loss_dict = NoDict
    /\ losses = 0
    /\ loss_dict_reduced = NoDict
    /\ loss_value = 0
    /\ backprop = <<>>
    /\ nZeroGrad = 0
    /\ nStep = 0
    /\ meters = NoDict
    /\ logged = {}
    /\ exit_status = -1
    /\ result = {}

InitTrain ==
    /\ IdleBash
    /\ IdleEval
    /\ IdleViz
    /\ tpc = "start"
    /\ nBatches \in 0..MaxBatches
    /\ weight_dict \in WeightDicts
    /\ max_norm \in {0, 1}
    /\ swav_model \in BOOLEAN
    /\ it = 0
    /\ nFetch = 0
    /\ samples = 0
    /\ fwd = <<>>
    /\ calls = <<>>
    /\ loss_dict = NoDict
    /\ losses = 0
    /\ loss_dict_reduced = NoDict
    /\ loss_value = 0
    /\ backprop = <<>>
    /\ nZeroGrad = 0
    /\ nStep = 0
    /\ meters = NoDict
    /\ logged = {}
    /\ exit_status = -1
    /\ result = {}

\* lines 40-50: the logger with its three meters, the prefetcher, the first fetch
TStart ==
    /\ tpc = "start"
    /\ UNCHANGED notTrainVars
    /\ meters' = [n \in {"lr", "class_error", "grad_norm"} |-> 0]
    /\ nFetch' = nFetch + 1
    /\ samples' = PrefetcherNext(nFetch + 1)
    /\ tpc' = "loop"
    /\ UNCHANGED <<nBatches, weight_dict, max_norm, swav_model, it, fwd, calls,
                   loss_dict, losses, loss_dict_reduced, loss_value, backprop,
                   nZeroGrad, nStep, logged, exit_status, result>>

\* line 53: for _ in range(len(data_loader))
TLoop ==
    /\ tpc = "loop"
    /\ UNCHANGED notTrainVars
    /\ tpc' = IF LoopContinues(it, nBatches) THEN "forward" ELSE "return"
    /\ calls' = <<>>
    /\ UNCHANGED <<nBatches, weight_dict, max_norm, swav_model, it, nFetch,
                   samples, fwd, loss_dict, losses, loss_dict_reduced,
                   loss_value, backprop, nZeroGrad, nStep, meters, logged,
                   exit_status, result>>

\* line 54: outputs = model(samples)
TForward ==
    /\ tpc = "forward"
    /\ UNCHANGED notTrainVars
    /\ fwd' = Append(fwd, samples)
    /\ calls' = Append(calls, "forward")
    /\ tpc' = "swav"
    /\ UNCHANGED <<nBatches, weight_dict, max_norm, swav_model, it, nFetch,
                   samples, loss_dict, losses, loss_dict_reduced, loss_value,
                   backprop, nZeroGrad, nStep, meters, logged, exit_status,
                   result>>

\* lines 55-58: the optional swav_model pass over the targets' patches
TSwav ==
    /\ tpc = "swav"
    /\ UNCHANGED notTrainVars
    /\ calls' = IF swav_model THEN Append(calls, "swav") ELSE calls
    /\ tpc' = "criterion"
    /\ UNCHANGED <<nBatches, weight_dict, max_norm, swav_model, it, nFetch,
                   samples, fwd, loss_dict, losses, loss_dict_reduced,
                   loss_value, backprop, nZeroGrad, nStep, meters, logged,
                   exit_status, result>>

\* lines 59-71: the loss dictionary, its weighted sum, the reduced copies
TCriterion ==
    /\ tpc = "criterion"
    /\ UNCHANGED notTrainVars
    /\ \E ld \in LossDicts, red \in LossDicts :
          /\ loss_dict' = ld
          /\ losses' = WeightedSum(ld, weight_dict)
          /\ loss_dict_reduced' = red
          /\ loss_value' = WeightedSum(red, weight_dict)
    /\ calls' = Append(calls, "criterion")
    /\ tpc' = "check"
    /\ UNCHANGED <<nBatches, weight_dict, max_norm, swav_model, it, nFetch,
                   samples, fwd, backprop, nZeroGrad, nStep, meters, logged,
                   exit_status, result>>

\* lines 73-76: if not math.isfinite(loss_value): sys.exit(1)
TCheck ==
    /\ tpc = "check"
    /\ UNCHANGED notTrainVars
    /\ calls' = Append(calls, "check")
    /\ IF IsFinite(loss_value)
          THEN /\ tpc' = "zero_grad"
               /\ UNCHANGED exit_status
          ELSE /\ tpc' = "exited"
               /\ exit_status' = 1
    /\ UNCHANGED <<nBatches, weight_dict, max_norm, swav_model, it, nFetch,
                   samples, fwd, loss_dict, losses, loss_dict_reduced,
                   loss_value, backprop, nZeroGrad, nStep, meters, logged,
                   result>>

\* optimizer.zero_grad() followed at once by optimizer.step(), the backward
\* pass left out
TZeroGradSkipsBackward ==
    /\ tpc = "zero_grad"
    /\ UNCHANGED notTrainVars
    /\ nZeroGrad' = nZeroGrad + 1
    /\ calls' = Append(calls, "zero_grad")
    /\ tpc' = "step"
    /\ UNCHANGED <<nBatches, weight_dict, max_norm, swav_model, it, nFetch,
                   samples, fwd, loss_dict, losses, loss_dict_reduced,
                   loss_value, backprop, nStep, meters, logged, exit_status,
                   result>>

\* line 78: optimizer.zero_grad()
TZeroGrad ==
    /\ tpc = "zero_grad"
    /\ UNCHANGED notTrainVars
    /\ nZeroGrad' = nZeroGrad + 1
    /\ calls' = Append(calls, "zero_grad")
    /\ tpc' = "backward"
    /\ UNCHANGED <<nBatches, weight_dict, max_norm, swav_model, it, nFetch,
                   samples, fwd, loss_dict, losses, loss_dict_reduced,
                   loss_value, backprop, nStep, meters, logged, exit_status,
                   result>>

\* line 79: losses.backward()
TBackward ==
    /\ tpc = "backward"
    /\ UNCHANGED notTrainVars
    /\ backprop' = Append(backprop, losses)
    /\ calls' = Append(calls, "backward")
    /\ tpc' = "grad_norm"
    /\ UNCHANGED <<nBatches, weight_dict, max_norm, swav_model, it, nFetch,
                   samples, fwd, loss_dict, losses, loss_dict_reduced,
                   loss_value, nZeroGrad, nStep, meters, logged, exit_status,
                   result>>

\* lines 80-83: clip_grad_norm_ when max_norm > 0, get_total_grad_norm otherwise
TGradNorm ==
    /\ tpc = "grad_norm"
    /\ UNCHANGED notTrainVars
    /\ calls' = Append(calls, IF max_norm > 0 THEN "clip_grad_norm"
                                              ELSE "get_total_grad_norm")
    /\ tpc' = "step"
    /\ UNCHANGED <<nBatches, weight_dict, max_norm, swav_model, it, nFetch,
                   samples, fwd, loss_dict, losses, loss_dict_reduced,
                   loss_value, backprop, nZeroGrad, nStep, meters, logged,
                   exit_status, result>>

\* line 84: optimizer.step()
TOptStep ==
    /\ tpc = "step"
    /\ UNCHANGED notTrainVars
    /\ nStep' = nStep + 1
    /\ calls' = Append(calls, "step")
    /\ tpc' = "log"
    /\ UNCHANGED <<nBatches, weight_dict, max_norm, swav_model, it, nFetch,
                   samples, fwd, loss_dict, losses, loss_dict_reduced,
                   loss_value, backprop, nZeroGrad, meters, logged,
                   exit_status, result>>

\* the (meter name, loss key) pairs the updates of lines 86-87 write
LoggedPairs(red, wd) ==
    {<<k, k>> : k \in WeightedKeys(red, wd)}
        \cup {<<UnscaledName(k), k>> : k \in DOMAIN red}
        \cup {<<"class_error", "class_error">>}

\* lines 86-89: the four metric_logger.update calls
TLog ==
    /\ tpc = "log"
    /\ UNCHANGED notTrainVars
    /\ logged' = LoggedPairs(loss_dict_reduced, weight_dict)
    /\ meters' = MeterUpdate(meters,
                    {"loss", "lr", "grad_norm"}
                        \cup {p[1] : p \in LoggedPairs(loss_dict_reduced, weight_dict)})
    /\ calls' = Append(calls, "log")
    /\ tpc' = "fetch"
    /\ UNCHANGED <<nBatches, weight_dict, max_norm, swav_model, it, nFetch,
                   samples, fwd, loss_dict, losses, loss_dict_reduced,
                   loss_value, backprop, nZeroGrad, nStep, exit_status, result>>

\* the end of an iteration with the prefetcher.next() of line 91 left out
TFetchMissing ==
    /\ tpc = "fetch"
    /\ UNCHANGED notTrainVars
    /\ calls' = Append(calls, "fetch")
    /\ it' = it + 1
    /\ tpc' = "loop"
    /\ UNCHANGED <<nBatches, weight_dict, max_norm, swav_model, nFetch, samples,
                   fwd, loss_dict, losses, loss_dict_reduced, loss_value,
                   backprop, nZeroGrad, nStep, meters, logged, exit_status,
                   result>>

\* line 91: samples, targets = prefetcher.next(); the iteration ends
TFetch ==
    /\ tpc = "fetch"
    /\ UNCHANGED notTrainVars
    /\ nFetch' = nFetch + 1
    /\ samples' = PrefetcherNext(nFetch + 1)
    /\ calls' = Append(calls, "fetch")
    /\ it' = it + 1
    /\ tpc' = "loop"
    /\ UNCHANGED <<nBatches, weight_dict, max_norm, swav_model, fwd, loss_dict,
                   losses, loss_dict_reduced, loss_value, backprop, nZeroGrad,
                   nStep, meters, logged, exit_status, result>>

\* lines 93-95: return {k: meter.global_avg for k, meter in meters.items()}
TReturn ==
    /\ tpc = "return"
    /\ UNCHANGED notTrainVars
    /\ result' = DOMAIN meters
    /\ tpc' = "returned"
    /\ UNCHANGED <<nBatches, weight_dict, max_norm, swav_model, it, nFetch,
                   samples, fwd, calls, loss_dict, losses, loss_dict_reduced,
                   loss_value, backprop, nZeroGrad, nStep, meters, logged,
                   exit_status>>

NextTrain ==
    \/ TStart
    \/ TLoop
    \/ TForward
    \/ TSwav
    \/ TCriterion
    \/ TCheck
    \/ TZeroGrad
    \/ TBackward
    \/ TGradNorm
    \/ TOptStep
    \/ TLog
    \/ TFetch
    \/ TReturn

SpecTrain == InitTrain /\ [][NextTrain]_vars

(***************************************************************************)
(* Properties of train_one_epoch                                           *)
(***************************************************************************)
IsPrefix(s, t) == Len(s) <= Len(t) /\ \A i \in 1..Len(s) : s[i] = t[i]

\* the steps of an iteration after the finite-loss check
AfterCheck == {"zero_grad", "backward", "grad_norm", "step", "log", "fetch"}

\* NaN, +infinity or -infinity
NonFinite(x) == x = NaN \/ x = PosInf \/ x = NegInf

\* C1: a non-finite reduced weighted loss ends the process in the iteration
\* that computed it, with exit status 1: no step after the check is ever
\* reached with a non-finite loss value, and in the exited state nothing can
\* happen any more and zero_grad, backward and step have each run exactly once
\* per iteration that preceded the non-finite one.
C1_AbortOnNonFiniteLoss ==
    /\ (tpc \notin {"check", "exited"} => ~NonFinite(loss_value))
    /\ (tpc = "exited" =>
           /\ NonFinite(loss_value)
           /\ exit_status = 1
           /\ calls[Len(calls)] = "check"
           /\ nZeroGrad = it
           /\ Len(backprop) = it
           /\ nStep = it
           /\ Len(fwd) = it + 1
           /\ ~ENABLED NextTrain)
    /\ (exit_status # -1 => tpc = "exited")

\* C1 witness: the second iteration aborts after one completed optimizer step
C1_Witness == tpc = "exited" /\ it = 1 /\ nStep = 1 /\ loss_value = NaN

\* the fixed order of the framework calls of an iteration
CallOrder == <<"forward", "criterion", "check", "zero_grad", "backward",
               "grad_norm", "step", "log", "fetch">>

\* the calls of the current iteration with the optional swav pass taken out
\* and the two gradient-norm functions named alike
NormCalls ==
    LET noSwav == SelectSeq(calls, LAMBDA c : c # "swav")
    IN  [i \in 1..Len(noSwav) |->
            IF noSwav[i] \in {"clip_grad_norm", "get_total_grad_norm"}
               THEN "grad_norm" ELSE noSwav[i]]

\* C2: the calls of an iteration happen in the fixed order forward, criterion,
\* finite check, zero_grad, backward, gradient norm, step, logger updates,
\* fetch; an iteration that was not aborted has made all of them, and a step
\* is always preceded by a backward pass of the same iteration.
C2_CallOrder ==
    /\ IsPrefix(NormCalls, CallOrder)
    /\ \A i \in 1..Len(calls) :
          calls[i] = "step" => \E j \in 1..(i - 1) : calls[j] = "backward"
    /\ (tpc = "loop" /\ it > 0 => NormCalls = CallOrder)
    /\ nStep <= Len(backprop)
    /\ \A i \in 1..Len(calls) :
          /\ calls[i] = "clip_grad_norm" => max_norm > 0
          /\ calls[i] = "get_total_grad_norm" => max_norm <= 0
          /\ calls[i] = "swav" => swav_model /\ i = 2

\* C2 witness: a second complete iteration has just ended
C2_Witness == tpc = "loop" /\ it = 2 /\ Len(calls) >= 9 /\ nStep = 2

\* the meters added before the loop, lines 43-45
AddedMeters == {"lr", "class_error", "grad_norm"}

\* C3 as stated: the function returns after len(data_loader) iterations,
\* forward passes and optimizer steps, and the returned dictionary holds every
\* meter, lr, class_error, grad_norm and loss among them.
C3_Original ==
    tpc = "returned" =>
        /\ it = nBatches
        /\ Len(fwd) = nBatches
        /\ nStep = nBatches
        /\ result = DOMAIN meters
        /\ AddedMeters \cup {"loss"} \subseteq result

\* C3 amended: as stated when the data loader has at least one batch; the
\* 'loss' meter is created by the first iteration's update, so with an empty
\* data loader no iteration, forward pass or step happens and the logger holds
\* only lr, class_error and grad_norm when the loop is left.
C3_ReturnsAfterAllBatches ==
    /\ (tpc = "returned" /\ nBatches >= 1 =>
           /\ it = nBatches
           /\ Len(fwd) = nBatches
           /\ nStep = nBatches
           /\ result = DOMAIN meters
           /\ AddedMeters \cup {"loss"} \subseteq result
           /\ \A n \in AddedMeters \cup {"loss"} : meters[n] = nBatches)
    /\ (tpc = "return" /\ nBatches = 0 =>
           /\ it = 0
           /\ fwd = <<>>
           /\ nStep = 0
           /\ DOMAIN meters = AddedMeters)
    /\ (tpc \notin {"returned", "exited"} => ENABLED NextTrain)

\* C3 witness: the function has returned after two iterations
C3_Witness == tpc = "returned" /\ nBatches = 2 /\ nStep = 2 /\ "loss" \in result

\* C8: without an abort prefetcher.next() is called len(data_loader)+1 times,
\* once before the loop and once at the end of every iteration; iteration i
\* runs the model on the i-th batch fetched, and the batch of the last fetch
\* is never passed to the model.
C8_Prefetch ==
    /\ (tpc # "start" => nFetch = it + 1)
    /\ \A i \in 1..Len(fwd) : fwd[i] = i
    /\ (tpc \in {"forward", "swav", "criterion", "check"} \cup AfterCheck =>
           samples = it + 1)
    /\ (tpc \in {"return", "returned"} =>
           /\ nFetch = nBatches + 1
           /\ samples = PrefetcherNext(nBatches + 1)
           /\ Len(fwd) = nBatches
           /\ \A i \in 1..Len(fwd) : fwd[i] # nFetch)

\* C8 witness: two batches were used and a third fetch was made
C8_Witness == tpc = "returned" /\ nFetch = 3 /\ fwd = <<1, 2>>

\* the weighted total of a loss dictionary, written out key by key
ExpectedTotal(d, wd) ==
    LET term(k) == IF k \in DOMAIN wd THEN FMul(d[k], wd[k]) ELSE 0
    IN  FAdd(term("loss_ce"), FAdd(term("loss_bbox"), term("class_error")))

\* the meter names a loss key was logged under by the last update
NamesOf(k) == {p[1] : p \in {q \in logged : q[2] = k}}

\* C9 as stated: the back-propagated and the logged total are the weighted
\* sums over the keys the two dictionaries share, and every loss key absent
\* from weight_dict is logged only under its '<key>_unscaled' name.
C9_Original ==
    /\ (tpc \in AfterCheck \ {"zero_grad", "backward"} =>
           backprop[Len(backprop)] = ExpectedTotal(loss_dict, weight_dict))
    /\ (tpc \in AfterCheck =>
           loss_value = ExpectedTotal(loss_dict_reduced, weight_dict))
    /\ (tpc = "fetch" =>
           \A k \in DOMAIN loss_dict_reduced \ DOMAIN weight_dict :
               NamesOf(k) = {UnscaledName(k)})

\* C9 amended: as stated, except that class_error, a loss key absent from
\* weight_dict, is logged under 'class_error' as well as under
\* 'class_error_unscaled' (line 87); every other unweighted loss key is logged
\* only under its '<key>_unscaled' name.
C9_WeightedLoss ==
    /\ (tpc \in AfterCheck \ {"zero_grad", "backward"} =>
           backprop[Len(backprop)] = ExpectedTotal(loss_dict, weight_dict))
    /\ (tpc \in {"check", "exited"} \cup AfterCheck =>
           loss_value = ExpectedTotal(loss_dict_reduced, weight_dict))
    /\ (tpc = "fetch" =>
           /\ \A k \in DOMAIN loss_dict_reduced \ DOMAIN weight_dict :
                 NamesOf(k) = IF k = "class_error"
                                 THEN {"class_error_unscaled", "class_error"}
                                 ELSE {UnscaledName(k)}
           /\ \A k \in DOMAIN loss_dict_reduced \cap DOMAIN weight_dict :
                 NamesOf(k) = {k, UnscaledName(k)})

\* C9 witness: an iteration was logged in which an unweighted loss was NaN
\* while the weighted total stayed finite
C9_Witness ==
    /\ tpc = "fetch"
    /\ "loss_bbox" \notin DOMAIN weight_dict
    /\ loss_dict["loss_bbox"] = NaN
    /\ loss_dict_reduced["loss_bbox"] = NaN
    /\ backprop[Len(backprop)] = 5

(***************************************************************************)
(* bash.py                                                                 *)
(***************************************************************************)
\* the words a command line of the model is made of
ArgTokens == {"--eval", "--batch_size", "2"}

\* the sequences over S of length at most n
RECURSIVE SeqsUpTo(_, _)
SeqsUpTo(S, n) ==
    IF n = 0 THEN {<<>>}
    ELSE LET shorter == SeqsUpTo(S, n - 1)
         IN  shorter \cup {Append(q, x) : q \in shorter, x \in S}

\* lines 10-12: the fixed head of the command
CommandPrefix == <<"./configs/DETReg_fine_tune_full_pascal.sh",
                   "--resume",
                   "exps/DETReg_fine_tune_full_pascal/checkpoint0099.pth",
                   "--viz">>

\* sys.argv[2:]: the first argument lost with the script name
ArgvFromSecond(argv) == IF Len(argv) <= 2 THEN <<>> ELSE SubSeq(argv, 3, Len(argv))

\* line 7: sys.argv[1:]
ArgvTail(argv) == SubSeq(argv, 2, Len(argv))

InitBash ==
    /\ IdleTrain
    /\ IdleEval
    /\ IdleViz
    /\ bpc = "line7"
    /\ sys_argv \in {<<"bash.py">> \o a : a \in SeqsUpTo(ArgTokens, MaxArgs)}
    /\ PY_ARGS = <<>>
    /\ command = <<>>
    /\ runs = <<>>

\* lines 6-7: PY_ARGS = sys.argv[1:]
BArgs ==
    /\ bpc = "line7"
    /\ UNCHANGED notBashVars
    /\ PY_ARGS' = ArgvTail(sys_argv)
    /\ bpc' = "line9"
    /\ UNCHANGED <<sys_argv, command, runs>>

\* lines 9-13: command = [...] + PY_ARGS
BCommand ==
    /\ bpc = "line9"
    /\ UNCHANGED notBashVars
    /\ command' = CommandPrefix \o PY_ARGS
    /\ bpc' = "line15"
    /\ UNCHANGED <<sys_argv, PY_ARGS, runs>>

\* line 15: subprocess.run(command)
BRun ==
    /\ bpc = "line15"
    /\ UNCHANGED notBashVars
    /\ runs' = Append(runs, command)
    /\ bpc' = "done"
    /\ UNCHANGED <<sys_argv, PY_ARGS, command>>

NextBash ==
    \/ BArgs
    \/ BCommand
    \/ BRun

SpecBash == InitBash /\ [][NextBash]_vars

\* C7: bash.py runs exactly one subprocess, and its argument list is the four
\* fixed words followed by every command-line argument, unchanged and in order.
C7_CommandPassThrough ==
    /\ Len(runs) <= 1
    /\ (bpc # "done" => runs = <<>>)
    /\ (bpc = "done" =>
           /\ Len(runs) = 1
           /\ Len(runs[1]) = 4 + (Len(sys_argv) - 1)
           /\ runs[1][1] = "./configs/DETReg_fine_tune_full_pascal.sh"
           /\ runs[1][2] = "--resume"
           /\ runs[1][3] = "exps/DETReg_fine_tune_full_pascal/checkpoint0099.pth"
           /\ runs[1][4] = "--viz"
           /\ \A i \in 2..Len(sys_argv) : runs[1][4 + (i - 1)] = sys_argv[i]
           /\ ~ENABLED NextBash)

\* C7 witness: the subprocess was run with three arguments passed through
C7_Witness ==
    /\ bpc = "done"
    /\ sys_argv = <<"bash.py", "--batch_size", "2", "--eval">>
    /\ Len(runs) = 1
    /\ Len(runs[1]) = 7

(***************************************************************************)
(* evaluate                                                                *)
(***************************************************************************)
\* values of the output_dir argument
OutputDirs == {"exps/run", "exps/loaddet", "exps/savedet"}

\* word in output_dir, for the two words evaluate looks for
InDir(word, dir) ==
    \/ word = "loaddet" /\ dir = "exps/loaddet"
    \/ word = "savedet" /\ dir = "exps/savedet"

\* the postprocessors main.py builds: bbox always, segm with masks, panoptic
\* on top of segm
PostKeySets == {{"bbox"}, {"bbox", "segm"}, {"bbox", "segm", "panoptic"}}

\* image_id of the k-th image of the dataset
DatasetIds == <<2021000247, 12, 2021000706, 34, 56, 78>>

\* lines 129-136: image_filenames, by the image id in the name
ImageFilenameIds == {2021000247, 2021000706, 2021001070, 2021003055,
                     2021007554, 2021008746}

\* 'img_' + str(image_id) + '.jpg'
ImgName(id) == <<"img_", id, ".jpg">>

\* class indices of labels and predictions
Classes == {7, 15}

\* the label tensors of a first target
LabelSeqs == SeqsUpTo(Classes, MaxLabels)

\* the image ids of batch b (1-based) of the data loader
BatchIds(b) ==
    LET first == (b - 1) * batch_size + 1
        last == IF b * batch_size < nImages THEN b * batch_size ELSE nImages
    IN  [i \in 1..(last - first + 1) |-> DatasetIds[first + i - 1]]

\* len(s.unique())
NumUnique(s) == Cardinality({s[i] : i \in 1..Len(s)})

\* lines 175-221: for ind in range(len(gt_cls.unique())): cls_num = gt_cls[ind];
\* ap is computed when a kept prediction has that class and is 0 otherwise
APLines(gt, preds) ==
    [ind \in 1..NumUnique(gt) |->
        [cls |-> gt[ind],
         ap |-> IF gt[ind] \in preds THEN "computed" ELSE "zero"]]

\* line 271 keyed by the first target's image_id only
ZipResFirstKey(tg, results) ==
    [id \in (IF Len(tg) = 0 \/ Len(results) = 0 THEN {} ELSE {tg[1]}) |->
        results[IF Len(tg) < Len(results) THEN Len(tg) ELSE Len(results)]]

\* line 271: {target['image_id'].item(): output
\*            for target, output in zip(targets, results)}
ZipRes(tg, results) ==
    LET n == IF Len(tg) < Len(results) THEN Len(tg) ELSE Len(results)
    IN  [id \in {tg[i] : i \in 1..n} |->
            results[CHOOSE i \in 1..n :
                       tg[i] = id /\ \A j \in 1..n : tg[j] = id => j <= i]]

InitEval ==
    /\ IdleTrain
    /\ IdleBash
    /\ IdleViz
    /\ epc = "start"
    /\ output_dir \in OutputDirs
    /\ dir_arg = output_dir
    /\ postKeys \in PostKeySets
    /\ nImages \in 0..MaxImages
    /\ batch_size \in 1..MaxBatchSize
    /\ eBatch = 0
    /\ targets = <<>>
    /\ gt_cls = <<>>
    /\ predClasses = {}
    /\ ap_lines = <<>>
    /\ ap_txt = <<>>
    /\ modelCalls = 0
    /\ stubbed = FALSE
    /\ detFiles = {}
    /\ figures = <<>>
    /\ emeters = {}
    /\ updates = <<>>
    /\ panoUpdates = 0
    /\ bound = {"model", "criterion", "postprocessors", "data_loader",
                "base_ds", "device", "output_dir"}
    /\ eresult = "none"

\* lines 100-123 with the assignment output_dir = 'vis' of line 105 left out
EStartKeepsOutputDir ==
    /\ epc = "start"
    /\ UNCHANGED notEvalVars
    /\ emeters' = {"class_error"}
    /\ bound' = bound \cup {"class_name", "metric_logger", "header",
                            "iou_types", "coco_evaluator",
                            "panoptic_evaluator"}
    /\ epc' = "loop"
    /\ UNCHANGED <<dir_arg, output_dir, postKeys, nImages, batch_size, eBatch,
                   targets, gt_cls, predClasses, ap_lines, ap_txt, modelCalls,
                   stubbed, detFiles, figures, updates, panoUpdates, eresult>>

\* lines 100-123: output_dir = 'vis', the logger, the two evaluators
EStart ==
    /\ epc = "start"
    /\ UNCHANGED notEvalVars
    /\ output_dir' = "vis"
    /\ emeters' = {"class_error"}
    /\ bound' = bound \cup {"class_name", "metric_logger", "header",
                            "iou_types", "coco_evaluator",
                            "panoptic_evaluator"}
    /\ epc' = "loop"
    /\ UNCHANGED <<dir_arg, postKeys, nImages, batch_size, eBatch, targets, gt_cls,
                   predClasses, ap_lines, ap_txt, modelCalls, stubbed,
                   detFiles, figures, updates, panoUpdates, eresult>>

\* lines 125-138: the next batch of the data loader, or the end of the loop
ELoop ==
    /\ epc = "loop"
    /\ UNCHANGED notEvalVars
    /\ IF eBatch * batch_size < nImages
          THEN /\ eBatch' = eBatch + 1
               /\ targets' = BatchIds(eBatch + 1)
               /\ gt_cls' \in LabelSeqs
               /\ ap_lines' = <<>>
               /\ bound' = bound \cup {"samples", "targets",
                                       "image_filenames", "name"}
               /\ epc' = "model"
          ELSE /\ epc' = "return"
               /\ UNCHANGED <<eBatch, targets, gt_cls, ap_lines, bound>>
    /\ UNCHANGED <<dir_arg, output_dir, postKeys, nImages, batch_size, predClasses,
                   ap_txt, modelCalls, stubbed, detFiles, figures, emeters,
                   updates, panoUpdates, eresult>>

\* lines 140-162: the loaddet branch, the forward pass, the top-10 queries
EModel ==
    /\ epc = "model"
    /\ UNCHANGED notEvalVars
    /\ IF InDir("loaddet", output_dir)
          THEN /\ detFiles' = detFiles \cup
                      {<<"load", targets[i]>> : i \in 1..Len(targets)}
               /\ stubbed' = TRUE
               /\ UNCHANGED modelCalls
          ELSE /\ modelCalls' = IF stubbed THEN modelCalls ELSE modelCalls + 1
               /\ UNCHANGED <<detFiles, stubbed>>
    /\ predClasses' \in SUBSET Classes
    /\ bound' = bound \cup {"outputs", "top_k", "indices", "predictied_boxes",
                            "logits", "ax", "image", "boxes"}
    /\ epc' = "ap"
    /\ UNCHANGED <<dir_arg, output_dir, postKeys, nImages, batch_size, eBatch,
                   targets, gt_cls, ap_lines, ap_txt, figures, emeters,
                   updates, panoUpdates, eresult>>

\* lines 166-221: the per-class average precision loop
EMeasureAP ==
    /\ epc = "ap"
    /\ UNCHANGED notEvalVars
    /\ ap_lines' = APLines(gt_cls, predClasses)
    /\ ap_txt' =
          IF targets[1] \in ImageFilenameIds
             THEN ap_txt \o
                  [i \in 1..Len(SelectSeq(APLines(gt_cls, predClasses),
                                          LAMBDA l : l.ap = "computed")) |->
                      ImgName(targets[1])]
             ELSE ap_txt
    /\ bound' = bound \cup {"probas", "values", "keep", "gts", "gt_cls",
                            "average_precision_score"}
                      \cup (IF NumUnique(gt_cls) > 0
                               THEN {"ind", "cls_num", "cls_pred",
                                     "cls_gt_box", "ap"}
                               ELSE {})
    /\ epc' = "savefig"
    /\ UNCHANGED <<dir_arg, output_dir, postKeys, nImages, batch_size, eBatch,
                   targets, gt_cls, predClasses, modelCalls, stubbed,
                   detFiles, figures, emeters, updates, panoUpdates,
                   eresult>>

\* lines 234-238: the figure of the batch
ESaveFig ==
    /\ epc = "savefig"
    /\ UNCHANGED notEvalVars
    /\ figures' = Append(figures, <<output_dir, ImgName(targets[1])>>)
    /\ epc' = "criterion"
    /\ UNCHANGED <<dir_arg, output_dir, postKeys, nImages, batch_size, eBatch,
                   targets, gt_cls, predClasses, ap_lines, ap_txt,
                   modelCalls, stubbed, detFiles, emeters, updates,
                   panoUpdates, bound, eresult>>

\* lines 240-252: the losses of the batch and the logger updates
ECriterion ==
    /\ epc = "criterion"
    /\ UNCHANGED notEvalVars
    /\ emeters' = emeters \cup {"loss", "class_error"}
                      \cup (LossKeys \cap WeightKeys)
                      \cup {UnscaledName(k) : k \in LossKeys}
    /\ bound' = bound \cup {"loss_dict", "weight_dict", "loss_dict_reduced",
                            "loss_dict_reduced_scaled",
                            "loss_dict_reduced_unscaled"}
    /\ epc' = "update"
    /\ UNCHANGED <<dir_arg, output_dir, postKeys, nImages, batch_size, eBatch,
                   targets, gt_cls, predClasses, ap_lines, ap_txt,
                   modelCalls, stubbed, detFiles, figures, updates,
                   panoUpdates, eresult>>

\* lines 254-273: the postprocessed results, the savedet branch, the map res
\* and coco_evaluator.update(res)
EEvaluatorUpdate ==
    /\ epc = "update"
    /\ UNCHANGED notEvalVars
    /\ LET results == [i \in 1..Len(targets) |->
                          [batch |-> eBatch, pos |-> i,
                           masks |-> "segm" \in postKeys]]
       IN  updates' = Append(updates, ZipRes(targets, results))
    /\ detFiles' = IF InDir("savedet", output_dir)
                      THEN detFiles \cup
                           {<<"save", targets[i]>> : i \in 1..Len(targets)}
                      ELSE detFiles
    /\ bound' = bound \cup {"orig_target_sizes", "results", "res"}
                      \cup (IF "segm" \in postKeys THEN {"target_sizes"} ELSE {})
    /\ epc' = "panoptic"
    /\ UNCHANGED <<dir_arg, output_dir, postKeys, nImages, batch_size, eBatch,
                   targets, gt_cls, predClasses, ap_lines, ap_txt,
                   modelCalls, stubbed, figures, emeters, panoUpdates,
                   eresult>>

\* lines 275-283: the panoptic evaluator, when there is one
EPanoptic ==
    /\ epc = "panoptic"
    /\ UNCHANGED notEvalVars
    /\ panoUpdates' = IF "panoptic" \in postKeys THEN panoUpdates + 1
                                                 ELSE panoUpdates
    /\ bound' = IF "panoptic" \in postKeys
                   THEN bound \cup {"res_pano", "i", "target", "image_id",
                                    "file_name"}
                   ELSE bound
    /\ epc' = "loop"
    /\ UNCHANGED <<dir_arg, output_dir, postKeys, nImages, batch_size, eBatch,
                   targets, gt_cls, predClasses, ap_lines, ap_txt,
                   modelCalls, stubbed, detFiles, figures, emeters,
                   updates, eresult>>

\* line 310: return stats, coco_evaluator; a name that was never bound
\* raises NameError
EReturn ==
    /\ epc = "return"
    /\ UNCHANGED notEvalVars
    /\ eresult' = IF {"stats", "coco_evaluator"} \subseteq bound
                     THEN "returned" ELSE "NameError"
    /\ epc' = "done"
    /\ UNCHANGED <<dir_arg, output_dir, postKeys, nImages, batch_size, eBatch,
                   targets, gt_cls, predClasses, ap_lines, ap_txt,
                   modelCalls, stubbed, detFiles, figures, emeters,
                   updates, panoUpdates, bound>>

NextEval ==
    \/ EStart
    \/ ELoop
    \/ EModel
    \/ EMeasureAP
    \/ ESaveFig
    \/ ECriterion
    \/ EEvaluatorUpdate
    \/ EPanoptic
    \/ EReturn

SpecEval == InitEval /\ [][NextEval]_vars

(***************************************************************************)
(* Properties of evaluate                                                  *)
(***************************************************************************)
\* the steps of evaluate's loop body before coco_evaluator.update
BeforeUpdate == {"model", "ap", "savefig", "criterion", "update"}

\* C4: once every batch of the data loader was processed, evaluate ends
\* normally, returning the pair of the validation stats and the evaluator
\* that was updated in the loop (stated here for a loader with a batch).
C4_Original ==
    epc = "done" /\ eBatch >= 1 =>
        /\ eresult = "returned"
        /\ Len(updates) = eBatch

\* the dataset positions of the images of batch b (1-based)
PositionsOf(b) ==
    {k \in 1..nImages : (b - 1) * batch_size < k /\ k <= b * batch_size}

\* C5: coco_evaluator.update is called exactly once per batch, with a map that
\* has exactly one entry per target of the batch, keyed by the target's
\* image_id and holding the result computed for that target; when the loop is
\* over the image ids given to the evaluator are those of all targets of the
\* data loader.
C5_EvaluatorUpdates ==
    /\ Len(updates) = IF epc \in BeforeUpdate THEN eBatch - 1 ELSE eBatch
    /\ \A b \in 1..Len(updates) :
          /\ DOMAIN updates[b] = {DatasetIds[k] : k \in PositionsOf(b)}
          /\ Cardinality(DOMAIN updates[b]) = Cardinality(PositionsOf(b))
          /\ PositionsOf(b) # {}
          /\ \A k \in PositionsOf(b) :
                /\ updates[b][DatasetIds[k]].batch = b
                /\ updates[b][DatasetIds[k]].pos = k - (b - 1) * batch_size
    /\ (epc \in BeforeUpdate =>
           /\ Len(targets) = Cardinality(PositionsOf(eBatch))
           /\ \A i \in 1..Len(targets) :
                 targets[i] = DatasetIds[(eBatch - 1) * batch_size + i])
    /\ (epc \in {"return", "done"} =>
           /\ eBatch * batch_size >= nImages
           /\ (eBatch - 1) * batch_size < nImages \/ eBatch = 0
           /\ UNION {DOMAIN updates[b] : b \in 1..Len(updates)}
                 = {DatasetIds[k] : k \in 1..nImages})

\* C5 witness: three images in batches of two, the loop is over
C5_Witness ==
    /\ epc = "return"
    /\ nImages = 3
    /\ batch_size = 2
    /\ Len(updates) = 2
    /\ DOMAIN updates[1] = {2021000247, 12}
    /\ DOMAIN updates[2] = {2021000706}

\* C10: for every batch the per-class loop prints one AP line for each
\* distinct class among the labels of the first target: none is skipped and
\* none is reported twice, whatever the order and multiplicity of the labels.
C10_Original ==
    epc \in {"savefig", "criterion", "update", "panoptic"} =>
        /\ {ap_lines[i].cls : i \in 1..Len(ap_lines)}
              = {gt_cls[i] : i \in 1..Len(gt_cls)}
        /\ \A i, j \in 1..Len(ap_lines) :
              ap_lines[i].cls = ap_lines[j].cls => i = j

(***************************************************************************)
(* plot_result and viz                                                     *)
(***************************************************************************)
\* class_name, lines 378-382: the entry of key str(i) is ClassNames[i + 1]
ClassNames == <<"N/A", "aeroplane", "bicycle", "bird", "boat", "bottle",
                "bus", "car", "cat", "chair", "cow", "diningtable", "dog",
                "horse", "motorbike", "person", "pottedplant", "sheep",
                "sofa", "train", "tvmonitor">>

\* x += 1 with the torch.clamp(x, max=20) that follows it left out
BumpNoClamp(x) == x + 1

\* lines 356-358 and 361-363: x += 1; x = torch.clamp(x, max=20)
BumpClamp(x) == IF x + 1 > 20 THEN 20 ELSE x + 1

\* class_name[str(i)]; a key the dictionary lacks raises KeyError
ClassNameOf(i) == IF i \in 0..20 THEN ClassNames[i + 1] ELSE "KeyError"

\* class-1 softmax scores of a query
ScoreVals == {1, 2}

\* labels of ground-truth boxes
GtLabelVals == {0, 20}

\* what the model says of one query: its class-1 score, whether its best
\* non-last class probability exceeds 0.01, and which class that is
QueryKinds ==
    {[score |-> sc, keep |-> FALSE, cls |-> 0] : sc \in ScoreVals}
        \cup {[score |-> sc, keep |-> TRUE, cls |-> c] :
                 sc \in ScoreVals, c \in {0, 90}}

\* .sort(descending=True)[1]: the orders of 1..n by descending score; equal
\* scores come in any order
SortedDesc(q) ==
    {p \in [1..Len(q) -> 1..Len(q)] :
        /\ \A i, j \in 1..Len(q) : i # j => p[i] # p[j]
        /\ \A i \in 1..(Len(q) - 1) : q[p[i]].score >= q[p[i + 1]].score}

\* [:top_k]
FirstK(p, k) == IF k >= Len(p) THEN p ELSE SubSeq(p, 1, k)

\* plot_result with prob_true=True, lines 348-374: every selected query whose
\* keep flag is set is drawn with the name of its bumped, clamped class
PlotPred(ind, q) ==
    LET kept == SelectSeq(ind, LAMBDA i : q[i].keep)
    IN  [j \in 1..Len(kept) |->
            [query |-> kept[j],
             text |-> ClassNameOf(BumpClamp(q[kept[j]].cls))]]

\* plot_result with prob_true=False, lines 354-358: target_label after the loop
BumpLabels(labels) == [i \in 1..Len(labels) |-> BumpClamp(labels[i])]

InitViz ==
    /\ IdleTrain
    /\ IdleBash
    /\ IdleEval
    /\ vpc = "start"
    /\ vN \in 0..MaxBatches
    /\ num_queries \in 1..MaxQueries
    /\ vBatch = 0
    /\ vImageId = 0
    /\ top_k = 0
    /\ vLabels = <<>>
    /\ loaded_labels = <<>>
    /\ queries = <<>>
    /\ indices = <<>>
    /\ drawnPred = <<>>
    /\ drawnGT = <<>>
    /\ vfigures = <<>>
    /\ verror = "none"

\* lines 378-388: class_name, output_dir = 'vis', eval mode, the logger
VStart ==
    /\ vpc = "start"
    /\ UNCHANGED notVizVars
    /\ vpc' = "loop"
    /\ UNCHANGED <<vN, num_queries, vBatch, vImageId, top_k, vLabels,
                   loaded_labels,
                   queries, indices, drawnPred, drawnGT, vfigures, verror>>

\* lines 390-393: the next batch, top_k = len(targets[0]['boxes'])
VLoop ==
    /\ vpc = "loop"
    /\ UNCHANGED notVizVars
    /\ IF vBatch < vN
          THEN /\ vBatch' = vBatch + 1
               /\ vImageId' = DatasetIds[vBatch + 1]
               /\ \E k \in 0..MaxBoxes :
                     /\ top_k' = k
                     /\ vLabels' \in [1..k -> GtLabelVals]
               /\ loaded_labels' = vLabels'
               /\ drawnPred' = <<>>
               /\ drawnGT' = <<>>
               /\ vpc' = "forward"
          ELSE /\ vpc' = "done"
               /\ UNCHANGED <<vBatch, vImageId, top_k, vLabels,
                              loaded_labels, drawnPred, drawnGT>>
    /\ UNCHANGED <<vN, num_queries, queries, indices, vfigures, verror>>

\* lines 395-398: the forward pass, the top_k queries by class-1 score, and
\* torch.stack over them, which raises on an empty list
VForward ==
    /\ vpc = "forward"
    /\ UNCHANGED notVizVars
    /\ \E q \in [1..num_queries -> QueryKinds] :
          /\ queries' = q
          /\ \E p \in SortedDesc(q) :
                /\ indices' = FirstK(p, top_k)
                /\ IF Len(FirstK(p, top_k)) = 0
                      THEN vpc' = "raised" /\ verror' = "RuntimeError"
                      ELSE vpc' = "plotpred" /\ UNCHANGED verror
    /\ UNCHANGED <<vN, num_queries, vBatch, vImageId, top_k, vLabels,
                   loaded_labels,
                   drawnPred, drawnGT, vfigures>>

\* lines 399-407: plot_result(image, boxes, logits, 'g', ax, True, ...)
VPlotPred ==
    /\ vpc = "plotpred"
    /\ UNCHANGED notVizVars
    /\ drawnPred' = PlotPred(indices, queries)
    /\ vpc' = "plotgt"
    /\ UNCHANGED <<vN, num_queries, vBatch, vImageId, top_k, vLabels,
                   loaded_labels,
                   queries, indices, drawnGT, vfigures, verror>>

\* lines 410-414: plot_result(image, boxes, zeros, 'r', ax, False, ...): the
\* zero logits keep every box, and the labels are bumped in place
VPlotGT ==
    /\ vpc = "plotgt"
    /\ UNCHANGED notVizVars
    /\ vLabels' = BumpLabels(vLabels)
    /\ drawnGT' = [i \in 1..(IF top_k < Len(vLabels) THEN top_k ELSE Len(vLabels)) |->
                      [box |-> i, text |-> ClassNameOf(BumpLabels(vLabels)[i])]]
    /\ vpc' = "save"
    /\ UNCHANGED <<vN, num_queries, vBatch, vImageId, top_k, loaded_labels,
                   queries, indices, drawnPred, vfigures, verror>>

\* lines 416-420: plt.savefig(os.path.join('vis', f'img_{image_id}.jpg'))
VSave ==
    /\ vpc = "save"
    /\ UNCHANGED notVizVars
    /\ vfigures' = Append(vfigures, <<"vis", ImgName(vImageId)>>)
    /\ vpc' = "loop"
    /\ UNCHANGED <<vN, num_queries, vBatch, vImageId, top_k, vLabels,
                   loaded_labels,
                   queries, indices, drawnPred, drawnGT, verror>>

NextViz ==
    \/ VStart
    \/ VLoop
    \/ VForward
    \/ VPlotPred
    \/ VPlotGT
    \/ VSave

SpecViz == InitViz /\ [][NextViz]_vars

(***************************************************************************)
(* Properties of viz                                                       *)
(***************************************************************************)
\* C6: for every batch viz draws exactly k predicted boxes for the first
\* image, k the number of its ground-truth boxes: the k queries of highest
\* class-1 score in descending order (when there are at least k queries),
\* then the k ground-truth boxes, and saves one figure img_<image_id>.jpg per
\* batch, a batch whose first target has no ground-truth box included.
C6_Original ==
    /\ verror = "none"
    /\ (vpc \in {"plotgt", "save"} /\ num_queries >= top_k =>
           /\ Len(drawnPred) = top_k
           /\ \A i \in 1..Len(drawnPred) :
                 Cardinality({j \in 1..num_queries :
                                 queries[j].score > queries[drawnPred[i].query].score})
                     <= i - 1
           /\ \A i, j \in 1..Len(drawnPred) :
                 i < j => queries[drawnPred[i].query].score
                              >= queries[drawnPred[j].query].score)
    /\ (vpc = "save" => Len(drawnGT) = top_k)
    /\ (vpc \in {"loop", "done"} =>
           /\ Len(vfigures) = vBatch
           /\ \A b \in 1..Len(vfigures) :
                 vfigures[b] = <<"vis", ImgName(DatasetIds[b])>>)

\* the class_name entries of the keys '1'..'20'
ObjectNames == {ClassNames[j + 1] : j \in 1..20}

\* every class name written into the figure of the current batch
DrawnTexts ==
    {drawnPred[i].text : i \in 1..Len(drawnPred)}
        \cup {drawnGT[i].text : i \in 1..Len(drawnGT)}

\* C11 as stated: plot_result with prob_true=True leaves target_label as it
\* was; with prob_true=False it replaces every label by min(label+1, 20), so
\* that after a batch the first target's labels differ from the loaded ones;
\* every class name drawn is the entry of a key in '1'..'20'.
C11_Original ==
    /\ (vpc = "plotgt" => vLabels = loaded_labels)
    /\ (vpc = "save" =>
           /\ Len(vLabels) = Len(loaded_labels)
           /\ \A i \in 1..Len(vLabels) :
                 vLabels[i] = IF loaded_labels[i] + 1 < 20
                                 THEN loaded_labels[i] + 1 ELSE 20
           /\ vLabels # loaded_labels)
    /\ DrawnTexts \subseteq ObjectNames

\* C11 amended: as stated, except that a label of 20 stays 20, so that after
\* a batch the first target's labels differ from the loaded ones exactly
\* where a loaded label is not 20 (and are equal to them when all are 20).
C11_LabelsBumpedInPlace ==
    /\ (vpc \in {"forward", "plotpred", "plotgt"} => vLabels = loaded_labels)
    /\ (vpc = "save" =>
           /\ Len(vLabels) = Len(loaded_labels)
           /\ \A i \in 1..Len(vLabels) :
                 /\ vLabels[i] = IF loaded_labels[i] + 1 < 20
                                    THEN loaded_labels[i] + 1 ELSE 20
                 /\ (vLabels[i] # loaded_labels[i] <=> loaded_labels[i] # 20)
           /\ Len(drawnGT) = Len(vLabels)
           /\ \A i \in 1..Len(drawnGT) :
                 drawnGT[i].text = ClassNames[vLabels[i] + 1])
    /\ DrawnTexts \subseteq ObjectNames
    /\ "N/A" \notin DrawnTexts

\* C11 witness: both calls of plot_result were made on a target with the
\* labels 0 and 20, and a predicted class above 20 was drawn
C11_Witness ==
    /\ vpc = "save"
    /\ loaded_labels = <<0, 20>>
    /\ vLabels = <<1, 20>>
    /\ \E i \in 1..Len(drawnPred) :
          queries[drawnPred[i].query].cls = 90 /\ drawnPred[i].text = "tvmonitor"
    /\ drawnGT[1].text = "aeroplane"

\* batches whose forward pass of line 149 has been made
BatchesPastModel == IF epc = "model" THEN eBatch - 1 ELSE eBatch

\* C12: whatever output_dir the caller passes to evaluate, the model passed
\* in is invoked once on every batch and never replaced by a stub, no
\* per-image detection file is loaded or saved, and every figure is saved
\* under 'vis'.
C12_DetBranchesNeverTaken ==
    epc \notin {"idle", "start"} =>
        /\ stubbed = FALSE
        /\ modelCalls = BatchesPastModel
        /\ detFiles = {}
        /\ \A i \in 1..Len(figures) : figures[i][1] = "vis"

\* C12 witness: the caller passed a directory that names loaddet, and two
\* batches went through the model, the figure and the evaluator update
C12_Witness ==
    /\ epc = "return"
    /\ dir_arg = "exps/loaddet"
    /\ eBatch = 2
    /\ modelCalls = 2
    /\ Len(figures) = 2
    /\ Len(updates) = 2

====
